---- MODULE Spec2Model ----
(***************************************************************************)
(* Job orchestration of the rigging backend: the Flask upload handler, the *)
(* in-memory task table, the worker thread run_pipeline_task and the       *)
(* stages of pipeline.run_pipeline, over the files they share.             *)
(*                                                                         *)
(* Every worker step is one access to a shared object (a file several jobs *)
(* name, or the task table) together with the thread-private code around   *)
(* it.  The engine (blender) is external: each invocation exits zero with  *)
(* its output, exits zero without it, exits non-zero, or never returns.    *)
(*                                                                         *)
(* The alignment of rigger.py (icp_align) is a second specification,       *)
(* AlignSpec, over meshes whose coordinates, centroids, scale and singular *)
(* vectors are integers, so that every step is computed exactly.  RigSpec  *)
(* is one run of rigger.py's main, with that alignment inside it, from the *)
(* moment run_pipeline starts it to the end of the job.                    *)
(***************************************************************************)
EXTENDS Integers, FiniteSets, Sequences, TLC

\* ---------------------------------------------------------------- bounds
MaxJobs    == 2      \* task ids that can be issued (uuid4 values in use)
MaxData    == 2      \* distinct upload contents
MaxOrphans == 1      \* uploads counted whose saved file has no task
TimeStep   == 300    \* seconds one Tick advances a running engine
MaxExtent  == 2      \* smallest half-extent of a template mesh
MaxOffset  == 1      \* steps by which a mesh or a target is displaced
MaxScale   == 2      \* uniform scale of a target against its template

\* ------------------------------------------------------ program constants
PREPARE_TIMEOUT == 300
RIG_TIMEOUT     == 600
MAX_FILE_SIZE   == 100 * 1024 * 1024
ALLOWED_EXT     == {"glb", "gltf", "obj", "fbx"}

TaskIds  == 1..MaxJobs
Data     == 1..MaxData
Stderrs  == {"", "Traceback"}
Outcomes == {"ok", "noout", "fail"}

VARIABLES
  tasks,      \* server.tasks: task id -> record; its domain is the issued ids
  pc,         \* position of the worker thread of each task id
  hashOf,     \* task id -> hash of the bytes uploaded for it
  pend,       \* exception pending while prepare_for_rigging's finally runs
  eng,        \* engine subprocess of the job: none, run, noscript (running
              \* without its script), its outcome once it exited, or killed
  elapsed,    \* seconds the job's current engine invocation has run
  runs,       \* engine invocations started per job, <<prepare, rig>>
  script,     \* tmp/preprocess_blender.py exists
  template,   \* templates/human.glb exists
  input,      \* uploads/<uuid>.<ext> of the job exists
  prepared,   \* outputs/<uuid>_prepared.glb of the job exists
  rigged,     \* outputs/rigged_temp.glb
  final,      \* outputs/final_rigged.glb
  cache,      \* hash -> outputs/<hash>.glb
  orphans,    \* files in uploads/ saved by a submission that got no task
  captured,   \* result.stderr of the job's last engine invocation that exited
  \* rigger.py, main and icp_align:
  apc,            \* position in main and in icp_align
  target_verts,   \* world-space vertices of the target mesh
  template_verts, \* world-space vertices of the template mesh
  loc,            \* locals: t_center, s_center, scale, U, Vt, R, reflected
  matrix_world,   \* template_obj.matrix_world
  returncode,     \* exit status of the script, once apc = "exit"
  performed,      \* the steps of main that completed, in order
  errors          \* the steps that raised (each is logged by log_error)

mvars == <<returncode, performed, errors>>

avars == <<apc, target_verts, template_verts, loc, matrix_world, mvars>>

svars == <<tasks, pc, hashOf, pend, eng, elapsed, runs, script, template, input,
           prepared, rigged, final, cache, orphans, captured>>

vars == <<tasks, pc, hashOf, pend, eng, elapsed, runs, script, template, input,
          prepared, rigged, final, cache, orphans, captured, avars>>

\* ------------------------------------------------------------------ files
NoFile == [exists |-> FALSE]

\* A file: whose rigging output its bytes are, which job wrote it last, the
\* jobs holding it open for writing, and whether a write to it was cut short.
File(content, by, writers, damaged) ==
  [exists |-> TRUE, content |-> content, by |-> by, writers |-> writers,
   damaged |-> damaged]

Exists(f)  == f.exists
Partial(f) == f.exists /\ (f.writers # {} \/ f.damaged)

\* shutil.copy2(src, dst), opening: dst is created or truncated and the data
\* starts to flow; dst exists from here on.
CopyOpen(src, dst, j) ==
  File(src.content, j,
       (IF dst.exists THEN dst.writers ELSE {}) \cup {j},
       Partial(src))

\* shutil.copy2 having written everything.
CopyClose(dst, j) ==
  IF dst.exists THEN [dst EXCEPT !.writers = @ \ {j}] ELSE dst

\* shutil.copy2 raising OSError after dst was opened: the bytes written so
\* far stay where they are.
CopyAbort(dst, j) ==
  IF dst.exists THEN [dst EXCEPT !.writers = @ \ {j}, !.damaged = TRUE] ELSE dst

\* ------------------------------------------------------------ error texts
OK == <<"ok", "">>
ErrPreprocess(stderr) == <<"Preprocessing failed: ", stderr>>
ErrNoPrepOut == <<"Preprocessing did not produce output file", "">>
ErrRigging(stderr) == <<"Rigging failed: ", stderr>>
ErrNoRigOut == <<"Rigging succeeded but output file missing", "">>
ErrTimeout(stage) == <<"Command timed out after seconds: ", stage>>
ErrENOENT == <<"[Errno 2] No such file or directory", "">>
ErrOSError == <<"[Errno 28] No space left on device", "">>

\* ------------------------------------------------------------- task table
Processing == [status |-> "PROCESSING"]
Success(path) == [status |-> "SUCCESS", output |-> path]
Failure(e) == [status |-> "FAILURE", error |-> e]

Issued == DOMAIN tasks
Terminal(t) == t \in Issued /\ tasks[t].status \in {"SUCCESS", "FAILURE"}

get_file_hash(data) == <<"sha256", data>>
Hashes == {get_file_hash(d) : d \in Data}
cached_path(h) == <<"outputs", h, ".glb">>

\* str(uuid.uuid4()): an id no record has yet
FreshIds == TaskIds \ Issued
NewTaskIdReused == CHOOSE t \in TaskIds : \A u \in TaskIds : t <= u
NewTaskId == CHOOSE t \in FreshIds : \A u \in FreshIds : t <= u

\* tasks[t] = rec
TaskPut(t, rec) ==
  [u \in DOMAIN tasks \cup {t} |-> IF u = t THEN rec ELSE tasks[u]]

Min(a, b) == IF a <= b THEN a ELSE b
CeilingRigForAll(stage) == RIG_TIMEOUT
\* timeout= of the stage's subprocess.run
Ceiling(stage) == IF stage = "prepare" THEN PREPARE_TIMEOUT ELSE RIG_TIMEOUT

\* ----------------------------------------------------------- 3x3 matrices
Zero3 == <<0, 0, 0>>
Identity3 == <<<<1, 0, 0>>, <<0, 1, 0>>, <<0, 0, 1>>>>
Identity4 == <<<<1, 0, 0, 0>>, <<0, 1, 0, 0>>, <<0, 0, 1, 0>>, <<0, 0, 0, 1>>>>

NoLocals ==
  [t_center |-> Zero3, s_center |-> Zero3, scale |-> 1, U |-> Identity3,
   Vt |-> Identity3, R |-> Identity3, reflected |-> FALSE]

\* rigger.py not running
AlignIdle ==
  /\ apc = "idle"
  /\ target_verts = << >>
  /\ template_verts = << >>
  /\ loc = NoLocals
  /\ matrix_world = Identity4
  /\ returncode = 0
  /\ performed = << >>
  /\ errors = {}

\* server.py as imported: no task, no thread, empty folders
ServerIdle ==
  /\ tasks = << >>
  /\ pc = [t \in TaskIds |-> "none"]
  /\ hashOf = [t \in TaskIds |-> get_file_hash(1)]
  /\ pend = [t \in TaskIds |-> OK]
  /\ eng = [t \in TaskIds |-> "none"]
  /\ elapsed = [t \in TaskIds |-> 0]
  /\ runs = [t \in TaskIds |-> <<0, 0>>]
  /\ script = FALSE
  /\ template = FALSE
  /\ input = [t \in TaskIds |-> FALSE]
  /\ prepared = [t \in TaskIds |-> FALSE]
  /\ rigged = NoFile
  /\ final = NoFile
  /\ cache = [h \in Hashes |-> NoFile]
  /\ orphans = 0
  /\ captured = [t \in TaskIds |-> ""]

Init == ServerIdle /\ AlignIdle


\* ----------------------------------------------------------------- upload
ValidWithoutSizeCheck(hasFile, filename, ext, size) ==
  hasFile /\ filename # "" /\ ext \in ALLOWED_EXT

\* The checks of upload() before any state is touched.
Valid(hasFile, filename, ext, size) ==
  /\ hasFile
  /\ filename # ""
  /\ ext \in ALLOWED_EXT
  /\ ~(size > MAX_FILE_SIZE)

CacheLookupAlways(h) == TRUE
CacheLookupNever(h) == FALSE
\* os.path.exists(cached_path)
CacheLookup(h) == Exists(cache[h])

\* upload(): a rejected request touches nothing; a cache hit writes a SUCCESS
\* record; otherwise the bytes are saved, and with the template present a
\* PROCESSING record is written and the worker thread started.
upload(hasFile, filename, ext, size, data) ==
  LET h == get_file_hash(data) IN
  IF ~Valid(hasFile, filename, ext, size) THEN UNCHANGED vars
  ELSE IF CacheLookup(h) THEN
    /\ FreshIds # {}
    /\ tasks' = TaskPut(NewTaskId, Success(cached_path(h)))
    /\ hashOf' = [hashOf EXCEPT ![NewTaskId] = h]
    /\ UNCHANGED <<pc, pend, eng, elapsed, runs, script, template, input,
                   prepared, rigged, final, cache, orphans,
                   captured, avars>>
  ELSE IF ~template THEN
    /\ orphans < MaxOrphans
    /\ orphans' = orphans + 1
    /\ UNCHANGED <<tasks, pc, hashOf, pend, eng, elapsed, runs, script,
                   template, input, prepared, rigged, final, cache,
                   captured, avars>>
  ELSE
    /\ FreshIds # {}
    /\ input' = [input EXCEPT ![NewTaskId] = TRUE]
    /\ tasks' = TaskPut(NewTaskId, Processing)
    /\ hashOf' = [hashOf EXCEPT ![NewTaskId] = h]
    /\ pc' = [pc EXCEPT ![NewTaskId] = "prep_script"]
    /\ UNCHANGED <<pend, eng, elapsed, runs, script, template, prepared,
                   rigged, final, cache, orphans,
                   captured, avars>>

\* The requests tried: an acceptable one, and one failing each check alone.
Requests ==
  {<<TRUE, "mesh", e, MAX_FILE_SIZE>> : e \in ALLOWED_EXT} \cup
  {<<FALSE, "mesh", "glb", MAX_FILE_SIZE>>,
   <<TRUE, "", "glb", MAX_FILE_SIZE>>,
   <<TRUE, "mesh", "exe", MAX_FILE_SIZE>>,
   <<TRUE, "mesh", "glb", MAX_FILE_SIZE + 1>>}

Upload ==
  \E r \in Requests, data \in Data : upload(r[1], r[2], r[3], r[4], data)

\* What upload() answers: jsonify(...) and the HTTP status.
UploadResponse(hasFile, filename, ext, size, data) ==
  IF ~hasFile THEN [code |-> 400, error |-> "No file part"]
  ELSE IF filename = "" THEN [code |-> 400, error |-> "Empty filename"]
  ELSE IF ext \notin ALLOWED_EXT THEN [code |-> 400, error |-> "Unsupported file type"]
  ELSE IF size > MAX_FILE_SIZE THEN [code |-> 400, error |-> "File too large"]
  ELSE IF CacheLookup(get_file_hash(data)) THEN [code |-> 200, task_id |-> NewTaskId]
  ELSE IF ~template THEN [code |-> 500, error |-> "Template not found"]
  ELSE [code |-> 200, task_id |-> NewTaskId]

\* ------------------------------------------------------- status, download
\* The ids a caller may ask about: the issued ones, the ones not issued yet,
\* and 0, which is never issued.
QueryIds == 0..MaxJobs

\* The file a locator names.
FileAt(path) ==
  IF \E h \in Hashes : path = cached_path(h)
  THEN cache[CHOOSE h \in Hashes : path = cached_path(h)]
  ELSE NoFile

StatusResponseDefault(t) ==
  IF t \notin DOMAIN tasks THEN [code |-> 200, status |-> "PROCESSING"]
  ELSE [code |-> 200, status |-> tasks[t].status]

\* status(task_id): tasks.get(task_id), 404 when there is none.
StatusResponse(t) ==
  IF t \notin DOMAIN tasks \/ DOMAIN tasks[t] = {}
  THEN [code |-> 404, error |-> "Invalid task ID"]
  ELSE IF tasks[t].status = "SUCCESS"
  THEN [code |-> 200, status |-> "SUCCESS", download_url |-> <<"/download/", t>>]
  ELSE IF tasks[t].status = "FAILURE"
  THEN [code |-> 200, status |-> "FAILURE",
        error |-> IF "error" \in DOMAIN tasks[t] THEN tasks[t].error
                  ELSE <<"Unknown error", "">>]
  ELSE [code |-> 200, status |-> "PROCESSING"]

DownloadOfUnchecked(t, fileExists) ==
  IF t \notin DOMAIN tasks \/ tasks[t].status # "SUCCESS"
  THEN [code |-> 404, error |-> "File not ready"]
  ELSE [code |-> 200, file |-> tasks[t].output]

\* download(task_id), given what os.path.exists(filepath) answers.
DownloadOf(t, fileExists) ==
  IF t \notin DOMAIN tasks \/ DOMAIN tasks[t] = {} \/ tasks[t].status # "SUCCESS"
  THEN [code |-> 404, error |-> "File not ready"]
  ELSE IF ~fileExists
  THEN [code |-> 500, error |-> "Rigged file missing on server"]
  ELSE [code |-> 200, file |-> tasks[t].output]

\* download(task_id) in the current state.
DownloadResponse(t) ==
  DownloadOf(t, t \in DOMAIN tasks /\ "output" \in DOMAIN tasks[t]
                  /\ Exists(FileAt(tasks[t].output)))

\* convert_templates.py: templates/human.fbx converted to human.glb
ConvertTemplates ==
  /\ ~template
  /\ template' = TRUE
  /\ UNCHANGED <<tasks, pc, hashOf, pend, eng, elapsed, runs, script, input,
                 prepared, rigged, final, cache, orphans,
                 captured, avars>>

\* ----------------------------------------------------------------- worker
\* except Exception: the record becomes FAILURE with str(e); finally follows.
MarkFailureOfFirstJob(j, e) ==
  /\ tasks' = TaskPut(NewTaskIdReused, Failure(e))
  /\ pc' = [pc EXCEPT ![j] = "fin"]

MarkFailure(j, e) ==
  /\ tasks' = TaskPut(j, Failure(e))
  /\ pc' = [pc EXCEPT ![j] = "fin"]

MarkSuccessWithoutOutput(j) ==
  /\ tasks' = TaskPut(j, [status |-> "SUCCESS"])
  /\ pc' = [pc EXCEPT ![j] = "fin"]

MarkSuccess(j) ==
  /\ tasks' = TaskPut(j, Success(cached_path(hashOf[j])))
  /\ pc' = [pc EXCEPT ![j] = "fin"]

At(j, p) == j \in Issued /\ pc[j] = p

\* prepare_for_rigging: the preprocessing script is written to the shared path.
PrepWriteScript(j) ==
  /\ At(j, "prep_script")
  /\ script' = TRUE
  /\ pc' = [pc EXCEPT ![j] = "prep_spawn"]
  /\ UNCHANGED <<tasks, hashOf, pend, eng, elapsed, runs, template, input,
                 prepared, rigged, final, cache, orphans,
                 captured, avars>>

\* subprocess.run starts blender, which reads the script file.
PrepSpawn(j) ==
  /\ At(j, "prep_spawn")
  /\ eng' = [eng EXCEPT ![j] = IF script THEN "run" ELSE "noscript"]
  /\ elapsed' = [elapsed EXCEPT ![j] = 0]
  /\ runs' = [runs EXCEPT ![j][1] = @ + 1]
  /\ pc' = [pc EXCEPT ![j] = "prep_wait"]
  /\ UNCHANGED <<tasks, hashOf, pend, script, template, input, prepared,
                 rigged, final, cache, orphans,
                 captured, avars>>

\* What prepare_for_rigging raises for the engine's result, OK for none.
PrepResult(outcome, stderr) ==
  CASE outcome = "fail"  -> ErrPreprocess(stderr)
    [] outcome = "noout" -> ErrNoPrepOut
    [] outcome = "hang"  -> ErrTimeout("300")
    [] OTHER             -> OK

\* The finally clause of prepare_for_rigging, up to os.path.exists(script_path);
\* without the file the result goes straight to the caller.
PrepFinally(j, res) ==
  IF script THEN
    /\ pend' = [pend EXCEPT ![j] = res]
    /\ pc' = [pc EXCEPT ![j] = "prep_rm"]
    /\ UNCHANGED tasks
  ELSE IF res = OK THEN
    /\ pc' = [pc EXCEPT ![j] = "rig_spawn"]
    /\ UNCHANGED <<tasks, pend>>
  ELSE
    /\ MarkFailure(j, res)
    /\ UNCHANGED pend

\* The prepare engine exits within its ceiling.
PrepExit(j, outcome, stderr) ==
  /\ At(j, "prep_wait")
  /\ outcome = "ok" => eng[j] = "run"
  /\ outcome # "fail" => stderr = ""
  /\ eng' = [eng EXCEPT ![j] = outcome]
  /\ elapsed' = [elapsed EXCEPT ![j] = 0]
  /\ captured' = [captured EXCEPT ![j] = stderr]
  /\ prepared' = [prepared EXCEPT ![j] = (outcome = "ok")]
  /\ PrepFinally(j, PrepResult(outcome, stderr))
  /\ UNCHANGED <<hashOf, runs, script, template, input, rigged, final, cache,
                 orphans,
                 avars>>

\* subprocess.run(timeout=300): the child is killed and TimeoutExpired raised.
PrepTimeout(j) ==
  /\ At(j, "prep_wait")
  /\ elapsed[j] >= Ceiling("prepare")
  /\ eng' = [eng EXCEPT ![j] = "killed"]
  /\ elapsed' = [elapsed EXCEPT ![j] = 0]
  /\ PrepFinally(j, PrepResult("hang", ""))
  /\ UNCHANGED <<hashOf, runs, script, template, input, prepared, rigged,
                 final, cache, orphans,
                 captured, avars>>

\* os.remove(script_path) in the finally clause: FileNotFoundError when another
\* job removed the file after this job's exists check.
PrepRemoveScript(j) ==
  /\ At(j, "prep_rm")
  /\ script' = FALSE
  /\ pend' = [pend EXCEPT ![j] = OK]
  /\ IF ~script THEN MarkFailure(j, ErrENOENT)
     ELSE IF pend[j] = OK THEN
       pc' = [pc EXCEPT ![j] = "rig_spawn"] /\ UNCHANGED tasks
     ELSE MarkFailure(j, pend[j])
  /\ UNCHANGED <<hashOf, eng, elapsed, runs, template, input, prepared,
                 rigged, final, cache, orphans,
                 captured, avars>>

\* run_pipeline step 2: subprocess.run starts blender on rigger.py.
RigSpawn(j) ==
  /\ At(j, "rig_spawn")
  /\ eng' = [eng EXCEPT ![j] = "run"]
  /\ elapsed' = [elapsed EXCEPT ![j] = 0]
  /\ runs' = [runs EXCEPT ![j][2] = @ + 1]
  /\ pc' = [pc EXCEPT ![j] = "rig_wait"]
  /\ UNCHANGED <<tasks, hashOf, pend, script, template, input, prepared,
                 rigged, final, cache, orphans,
                 captured, avars>>

\* The rigging engine exits within its ceiling; a non-zero status raises.
RigExit(j, outcome, stderr) ==
  /\ At(j, "rig_wait")
  /\ outcome # "fail" => stderr = ""
  /\ eng' = [eng EXCEPT ![j] = outcome]
  /\ elapsed' = [elapsed EXCEPT ![j] = 0]
  /\ captured' = [captured EXCEPT ![j] = stderr]
  /\ rigged' = IF outcome = "ok" THEN File(j, j, {}, FALSE) ELSE rigged
  /\ IF outcome = "fail" THEN MarkFailure(j, ErrRigging(stderr))
     ELSE pc' = [pc EXCEPT ![j] = "rig_check"] /\ UNCHANGED tasks
  /\ UNCHANGED <<hashOf, pend, runs, script, template, input, prepared, final,
                 cache, orphans,
                 avars>>

RigNoTimeout(j) == At(j, "rig_wait") /\ FALSE /\ UNCHANGED vars
\* subprocess.run(timeout=600): the child is killed and TimeoutExpired raised.
RigTimeout(j) ==
  /\ At(j, "rig_wait")
  /\ elapsed[j] >= Ceiling("rig")
  /\ eng' = [eng EXCEPT ![j] = "killed"]
  /\ elapsed' = [elapsed EXCEPT ![j] = 0]
  /\ MarkFailure(j, ErrTimeout("600"))
  /\ UNCHANGED <<hashOf, pend, runs, script, template, input, prepared,
                 rigged, final, cache, orphans,
                 captured, avars>>

\* Time passes for a running engine, up to the ceiling of its stage.
Tick(j) ==
  /\ j \in Issued
  /\ pc[j] \in {"prep_wait", "rig_wait"}
  /\ LET c == Ceiling(IF pc[j] = "prep_wait" THEN "prepare" ELSE "rig") IN
       /\ elapsed[j] < c
       /\ elapsed' = [elapsed EXCEPT ![j] = Min(@ + TimeStep, c)]
  /\ UNCHANGED <<tasks, pc, hashOf, pend, eng, runs, script, template, input,
                 prepared, rigged, final, cache, orphans,
                 captured, avars>>

RigCheckOutputRetrying(j) ==
  /\ At(j, "rig_check")
  /\ IF Exists(rigged) THEN pc' = [pc EXCEPT ![j] = "opt_begin"]
     ELSE pc' = [pc EXCEPT ![j] = "rig_spawn"]
  /\ UNCHANGED <<tasks, hashOf, pend, eng, elapsed, runs, script, template,
                 input, prepared, rigged, final, cache, orphans, captured,
                 avars>>

\* if not os.path.exists(rigged_path): raise
RigCheckOutput(j) ==
  /\ At(j, "rig_check")
  /\ IF Exists(rigged) THEN pc' = [pc EXCEPT ![j] = "opt_begin"] /\ UNCHANGED tasks
     ELSE MarkFailure(j, ErrNoRigOut)
  /\ UNCHANGED <<hashOf, pend, eng, elapsed, runs, script, template, input,
                 prepared, rigged, final, cache, orphans,
                 captured, avars>>

\* optimize_for_web: shutil.copy2(rigged_temp.glb, final_rigged.glb) opens.
OptimizeBegin(j) ==
  /\ At(j, "opt_begin")
  /\ IF Exists(rigged) THEN
       /\ final' = CopyOpen(rigged, final, j)
       /\ pc' = [pc EXCEPT ![j] = "opt_copy"]
       /\ UNCHANGED tasks
     ELSE
       /\ MarkFailure(j, ErrENOENT)
       /\ UNCHANGED final
  /\ UNCHANGED <<hashOf, pend, eng, elapsed, runs, script, template, input,
                 prepared, rigged, cache, orphans,
                 captured, avars>>

\* optimize_for_web: the copy completes, or raises OSError part way.
OptimizeEnd(j, io_ok) ==
  /\ At(j, "opt_copy")
  /\ IF io_ok THEN
       /\ final' = CopyClose(final, j)
       /\ pc' = [pc EXCEPT ![j] = "clean_check"]
       /\ UNCHANGED tasks
     ELSE
       /\ final' = CopyAbort(final, j)
       /\ MarkFailure(j, ErrOSError)
  /\ UNCHANGED <<hashOf, pend, eng, elapsed, runs, script, template, input,
                 prepared, rigged, cache, orphans,
                 captured, avars>>

CleanupCheckKeepsPrepared(j) ==
  /\ At(j, "clean_check")
  /\ pc' = [pc EXCEPT ![j] = IF Exists(rigged) THEN "clean_rm" ELSE "pub_begin"]
  /\ UNCHANGED <<tasks, hashOf, pend, eng, elapsed, runs, script, template,
                 input, prepared, rigged, final, cache, orphans,
                 captured, avars>>

\* run_pipeline clean-up: the prepared mesh is removed, then
\* os.path.exists(rigged_path) is read.
CleanupCheck(j) ==
  /\ At(j, "clean_check")
  /\ prepared' = [prepared EXCEPT ![j] = FALSE]
  /\ pc' = [pc EXCEPT ![j] = IF Exists(rigged) THEN "clean_rm" ELSE "pub_begin"]
  /\ UNCHANGED <<tasks, hashOf, pend, eng, elapsed, runs, script, template,
                 input, rigged, final, cache, orphans,
                 captured, avars>>

\* os.remove(rigged_path), then run_pipeline returns final_rigged.glb.
CleanupRemove(j) ==
  /\ At(j, "clean_rm")
  /\ rigged' = NoFile
  /\ IF Exists(rigged) THEN pc' = [pc EXCEPT ![j] = "pub_begin"] /\ UNCHANGED tasks
     ELSE MarkFailure(j, ErrENOENT)
  /\ UNCHANGED <<hashOf, pend, eng, elapsed, runs, script, template, input,
                 prepared, final, cache, orphans,
                 captured, avars>>

\* run_pipeline_task: final_path differs from output_path, so
\* shutil.copy2(final_rigged.glb, <hash>.glb) opens.
PublishBegin(j) ==
  /\ At(j, "pub_begin")
  /\ IF Exists(final) THEN
       /\ cache' = [cache EXCEPT ![hashOf[j]] = CopyOpen(final, @, j)]
       /\ pc' = [pc EXCEPT ![j] = "pub_copy"]
       /\ UNCHANGED tasks
     ELSE
       /\ MarkFailure(j, ErrENOENT)
       /\ UNCHANGED cache
  /\ UNCHANGED <<hashOf, pend, eng, elapsed, runs, script, template, input,
                 prepared, rigged, final, orphans,
                 captured, avars>>

\* The copy to <hash>.glb completes and the record becomes SUCCESS, or the
\* copy raises OSError part way and the record becomes FAILURE.
PublishEnd(j, io_ok) ==
  /\ At(j, "pub_copy")
  /\ IF io_ok THEN
       /\ cache' = [cache EXCEPT ![hashOf[j]] = CopyClose(@, j)]
       /\ MarkSuccess(j)
     ELSE
       /\ cache' = [cache EXCEPT ![hashOf[j]] = CopyAbort(@, j)]
       /\ MarkFailure(j, ErrOSError)
  /\ UNCHANGED <<hashOf, pend, eng, elapsed, runs, script, template, input,
                 prepared, rigged, final, orphans,
                 captured, avars>>

\* finally: the uploaded file is removed.
RemoveInput(j) ==
  /\ At(j, "fin")
  /\ input' = [input EXCEPT ![j] = FALSE]
  /\ pc' = [pc EXCEPT ![j] = "done"]
  /\ UNCHANGED <<tasks, hashOf, pend, eng, elapsed, runs, script, template,
                 prepared, rigged, final, cache, orphans,
                 captured, avars>>

\* The engine of job j exits: the one step that is the engine's to take.
EngineExit(j) ==
  \/ \E o \in Outcomes, e \in Stderrs : PrepExit(j, o, e)
  \/ \E o \in Outcomes, e \in Stderrs : RigExit(j, o, e)

\* One step of the code of the worker thread of job j.
Worker(j) ==
  \/ PrepWriteScript(j)
  \/ PrepSpawn(j)
  \/ PrepTimeout(j)
  \/ PrepRemoveScript(j)
  \/ RigSpawn(j)
  \/ RigTimeout(j)
  \/ RigCheckOutput(j)
  \/ OptimizeBegin(j)
  \/ \E io_ok \in BOOLEAN : OptimizeEnd(j, io_ok)
  \/ CleanupCheck(j)
  \/ CleanupRemove(j)
  \/ PublishBegin(j)
  \/ \E io_ok \in BOOLEAN : PublishEnd(j, io_ok)
  \/ RemoveInput(j)

Next ==
  \/ Upload
  \/ ConvertTemplates
  \/ \E j \in TaskIds : Worker(j)
  \/ \E j \in TaskIds : EngineExit(j)
  \/ \E j \in TaskIds : Tick(j)

Spec == Init /\ [][Next]_vars

\* Every started thread keeps being scheduled and time keeps passing for a
\* running engine; nothing makes an engine exit.
FairSpec ==
  /\ Spec
  /\ \A j \in TaskIds : WF_vars(Worker(j))
  /\ \A j \in TaskIds : WF_vars(Tick(j))


\* ============================================================== alignment
\* ------------------------------------------------- vectors and matrices
\* Vectors are tuples of 3 numbers, matrices tuples of rows.
Dot(u, v) == u[1] * v[1] + u[2] * v[2] + u[3] * v[3]

VAdd(u, v) == <<u[1] + v[1], u[2] + v[2], u[3] + v[3]>>
VSub(u, v) == <<u[1] - v[1], u[2] - v[2], u[3] - v[3]>>
VScale(k, v) == <<k * v[1], k * v[2], k * v[3]>>

\* M.T of a 3x3 matrix
Transpose(M) ==
  << <<M[1][1], M[2][1], M[3][1]>>,
     <<M[1][2], M[2][2], M[3][2]>>,
     <<M[1][3], M[2][3], M[3][3]>> >>

\* row vector a times the 3x3 matrix B
RowTimes(a, B) ==
  VAdd(VAdd(VScale(a[1], B[1]), VScale(a[2], B[2])), VScale(a[3], B[3]))

\* A @ B of 3x3 matrices
MatMul(A, B) == <<RowTimes(A[1], B), RowTimes(A[2], B), RowTimes(A[3], B)>>

\* M @ v
MatVec(M, v) == <<Dot(M[1], v), Dot(M[2], v), Dot(M[3], v)>>

\* np.linalg.det of a 3x3 matrix
Det3(M) ==
    M[1][1] * (M[2][2] * M[3][3] - M[2][3] * M[3][2])
  - M[1][2] * (M[2][1] * M[3][3] - M[2][3] * M[3][1])
  + M[1][3] * (M[2][1] * M[3][2] - M[2][2] * M[3][1])

RECURSIVE SumTo(_, _)
SumTo(verts, n) == IF n = 0 THEN Zero3 ELSE VAdd(verts[n], SumTo(verts, n - 1))

\* verts.mean(axis=0); the meshes of AlignInit have integer centroids
Mean(verts) ==
  << SumTo(verts, Len(verts))[1] \div Len(verts),
     SumTo(verts, Len(verts))[2] \div Len(verts),
     SumTo(verts, Len(verts))[3] \div Len(verts) >>

\* ((verts - center) ** 2).sum(axis=1).sum() over the first n vertices
RECURSIVE SumSquaresTo(_, _, _)
SumSquaresTo(verts, center, n) ==
  IF n = 0 THEN 0
  ELSE Dot(VSub(verts[n], center), VSub(verts[n], center))
         + SumSquaresTo(verts, center, n - 1)

ScaleOfWithoutFallback(tverts, t_center, sverts, s_center) ==
  CHOOSE k \in 0..SumSquaresTo(tverts, t_center, Len(tverts)) :
    \/ SumSquaresTo(sverts, s_center, Len(sverts)) = 0
    \/ k * k * SumSquaresTo(sverts, s_center, Len(sverts)) * Len(tverts)
         = SumSquaresTo(tverts, t_center, Len(tverts)) * Len(sverts)

\* t_scale / s_scale if s_scale > 0 else 1.0.  t_scale and s_scale are roots
\* of means; their ratio is the root of the ratio of the means, an integer
\* for the meshes of AlignInit.
ScaleOf(tverts, t_center, sverts, s_center) ==
  IF SumSquaresTo(sverts, s_center, Len(sverts)) > 0
  THEN CHOOSE k \in 0..SumSquaresTo(tverts, t_center, Len(tverts)) :
         k * k * SumSquaresTo(sverts, s_center, Len(sverts)) * Len(tverts)
           = SumSquaresTo(tverts, t_center, Len(tverts)) * Len(sverts)
  ELSE 1

\* np.outer(u, v)
Outer(u, v) == <<VScale(u[1], v), VScale(u[2], v), VScale(u[3], v)>>

\* A + B of 3x3 matrices
MatAdd(A, B) == <<VAdd(A[1], B[1]), VAdd(A[2], B[2]), VAdd(A[3], B[3])>>

\* (sverts - s_center).T @ (tverts - t_center) over the first n vertices
RECURSIVE CrossCovarianceTo(_, _, _, _, _)
CrossCovarianceTo(sverts, s_center, tverts, t_center, n) ==
  IF n = 0 THEN <<Zero3, Zero3, Zero3>>
  ELSE MatAdd(Outer(VSub(sverts[n], s_center), VSub(tverts[n], t_center)),
              CrossCovarianceTo(sverts, s_center, tverts, t_center, n - 1))

UnitRow(j, sign) ==
  <<IF j = 1 THEN sign ELSE 0, IF j = 2 THEN sign ELSE 0, IF j = 3 THEN sign ELSE 0>>

\* The orthogonal matrices with integer entries: one 1 or -1 in each row and
\* column.
Orthogonal ==
  { <<UnitRow(p[1], sg[1]), UnitRow(p[2], sg[2]), UnitRow(p[3], sg[3])>> :
      p \in {q \in [1..3 -> 1..3] : \A i, j \in 1..3 : q[i] = q[j] => i = j},
      sg \in [1..3 -> {-1, 1}] }

Rotations == {Q \in Orthogonal : Det3(Q) = 1}

IsSingularValues(S) ==
  /\ \A i, j \in 1..3 : i # j => S[i][j] = 0
  /\ S[1][1] >= S[2][2] /\ S[2][2] >= S[3][3] /\ S[3][3] >= 0

\* The Vt with A = diag(s) @ Vt, for A = U.T @ H: the rows of A are then
\* orthogonal and of descending length.
RightFactors(A) ==
  IF /\ Dot(A[1], A[2]) = 0 /\ Dot(A[1], A[3]) = 0 /\ Dot(A[2], A[3]) = 0
     /\ Dot(A[1], A[1]) >= Dot(A[2], A[2]) /\ Dot(A[2], A[2]) >= Dot(A[3], A[3])
  THEN {Vt \in Orthogonal : IsSingularValues(MatMul(A, Transpose(Vt)))}
  ELSE {}

\* np.linalg.svd(H): every <<U, Vt>> with H = U @ diag(s) @ Vt and
\* s[1] >= s[2] >= s[3] >= 0.  The singular vectors are determined up to
\* their signs when the singular values differ, as they do for the meshes
\* of AlignInit; which signs LAPACK returns is left open.
svd(H) ==
  UNION { {<<U, Vt>> : Vt \in RightFactors(MatMul(Transpose(U), H))} :
            U \in Orthogonal }

VtUncorrected(U, Vt) == Vt

\* if np.linalg.det(R) < 0: Vt[-1, :] *= -1
VtCorrected(U, Vt) ==
  IF Det3(MatMul(Transpose(Vt), Transpose(U))) < 0
  THEN <<Vt[1], Vt[2], VScale(-1, Vt[3])>>
  ELSE Vt

\* Matrix(R).to_4x4()
to_4x4(R) ==
  << <<R[1][1], R[1][2], R[1][3], 0>>,
     <<R[2][1], R[2][2], R[2][3], 0>>,
     <<R[3][1], R[3][2], R[3][3], 0>>,
     <<0, 0, 0, 1>> >>

\* row vector a times the 4x4 matrix B
Row4Times(a, B) ==
  << a[1] * B[1][1] + a[2] * B[2][1] + a[3] * B[3][1] + a[4] * B[4][1],
     a[1] * B[1][2] + a[2] * B[2][2] + a[3] * B[3][2] + a[4] * B[4][2],
     a[1] * B[1][3] + a[2] * B[2][3] + a[3] * B[3][3] + a[4] * B[4][3],
     a[1] * B[1][4] + a[2] * B[2][4] + a[3] * B[3][4] + a[4] * B[4][4] >>

\* A @ B of 4x4 matrices
MatMul4(A, B) ==
  <<Row4Times(A[1], B), Row4Times(A[2], B), Row4Times(A[3], B),
    Row4Times(A[4], B)>>

\* mathutils Vector @ Matrix: a 3-vector is a row vector, extended by 1 for
\* a 4x4 matrix, and the result is cut to 3 components.
RowVecMul(v, M) ==
  << Row4Times(<<v[1], v[2], v[3], 1>>, M)[1],
     Row4Times(<<v[1], v[2], v[3], 1>>, M)[2],
     Row4Times(<<v[1], v[2], v[3], 1>>, M)[3] >>

\* transform.translation = t
WithTranslation(M, t) ==
  << <<M[1][1], M[1][2], M[1][3], t[1]>>,
     <<M[2][1], M[2][2], M[2][3], t[2]>>,
     <<M[3][1], M[3][2], M[3][3], t[3]>>,
     M[4] >>

\* Matrix.Scale(scale, 4)
MatrixScale(k) ==
  << <<k, 0, 0, 0>>, <<0, k, 0, 0>>, <<0, 0, k, 0>>, <<0, 0, 0, 1>> >>

\* matrix @ p for a point p: p is extended by 1, the result cut to 3
\* components.
Apply(M, p) ==
  << M[1][1] * p[1] + M[1][2] * p[2] + M[1][3] * p[3] + M[1][4],
     M[2][1] * p[1] + M[2][2] * p[2] + M[2][3] * p[3] + M[2][4],
     M[3][1] * p[1] + M[3][2] * p[2] + M[3][3] * p[3] + M[3][4] >>

\* "Build transformation matrix" of icp_align
BuildTransform(R, t_center, s_center, scale) ==
  MatMul4(MatrixScale(scale),
          WithTranslation(to_4x4(R),
                          VSub(t_center, RowVecMul(s_center, to_4x4(R)))))

\* ------------------------------------------------------------- the meshes
\* A template mesh: six vertices on the axes around a centre, with three
\* different half-extents.
Octahedron(a, c) ==
  << VAdd(c, <<a, 0, 0>>), VAdd(c, <<-a, 0, 0>>),
     VAdd(c, <<0, a + 1, 0>>), VAdd(c, <<0, -(a + 1), 0>>),
     VAdd(c, <<0, 0, a + 2>>), VAdd(c, <<0, 0, -(a + 2)>>) >>

Offsets == {<<o, 2 * o, 3 * o>> : o \in 0..MaxOffset}

\* p |-> k * Q * p + d as a 4x4 matrix
Similarity(k, Q, d) == WithTranslation(MatMul4(MatrixScale(k), to_4x4(Q)), d)

\* The vertices of a mesh under a 4x4 matrix.
Moved(M, verts) == [i \in 1..Len(verts) |-> Apply(M, verts[i])]

\* A mesh whose six vertices are the same point.
Collapsed(c) == <<c, c, c, c, c, c>>

\* The <<template_verts, target_verts>> that icp_align extracts from the two
\* imported meshes: a template and the same mesh rotated or mirrored, scaled
\* and moved; a mesh without vertices on either side; a template collapsed
\* to one point.
MeshPairs ==
  { <<Octahedron(a, c), Moved(Similarity(k, Q, d), Octahedron(a, c))>> :
      a \in 1..MaxExtent, c \in Offsets, k \in 1..MaxScale, Q \in Orthogonal,
      d \in Offsets }
  \cup { <<Octahedron(a, c), << >> >> : a \in 1..MaxExtent, c \in Offsets }
  \cup { << << >>, Octahedron(a, c)>> : a \in 1..MaxExtent, c \in Offsets }
  \cup { <<Collapsed(c), Octahedron(MaxExtent, d)>> : c \in Offsets, d \in Offsets }

\* icp_align(target_obj, template_mesh) after "Extract vertices".
AlignInit ==
  /\ ServerIdle
  /\ apc = "center"
  /\ loc = NoLocals
  /\ matrix_world = Identity4
  /\ returncode = 0
  /\ performed = << >>
  /\ errors = {}
  /\ \E m \in MeshPairs : template_verts = m[1] /\ target_verts = m[2]

\* ------------------------------------------------------------ the steps
\* The length check and "Center".
Center ==
  /\ apc = "center"
  /\ IF Len(target_verts) = 0 \/ Len(template_verts) = 0
     THEN /\ apc' = "raised"
          /\ errors' = errors \cup {"no_vertices"}
          /\ UNCHANGED loc
     ELSE /\ apc' = "scale"
          /\ loc' = [loc EXCEPT !.t_center = Mean(target_verts),
                                !.s_center = Mean(template_verts)]
          /\ UNCHANGED errors
  /\ UNCHANGED <<target_verts, template_verts, matrix_world, returncode,
                 performed, svars>>

\* "Scale"
Scale ==
  /\ apc = "scale"
  /\ apc' = "rotation"
  /\ loc' = [loc EXCEPT !.scale =
               ScaleOf(target_verts, loc.t_center, template_verts, loc.s_center)]
  /\ UNCHANGED <<target_verts, template_verts, matrix_world, mvars, svars>>

\* "Rotation via SVD"
Rotation ==
  /\ apc = "rotation"
  /\ apc' = "transform"
  /\ \E H \in {CrossCovarianceTo(template_verts, loc.s_center, target_verts,
                                  loc.t_center, Len(template_verts))} :
       \E uv \in svd(H) :
         \E Vt \in {VtCorrected(uv[1], uv[2])} :
           loc' = [loc EXCEPT !.U = uv[1], !.Vt = Vt,
                              !.R = MatMul(Transpose(Vt), Transpose(uv[1])),
                              !.reflected = (Vt # uv[2])]
  /\ UNCHANGED <<target_verts, template_verts, matrix_world, mvars, svars>>

\* "Build transformation matrix" and "Apply to template object"
Transform ==
  /\ apc = "transform"
  /\ apc' = "done"
  /\ matrix_world' =
       MatMul4(BuildTransform(loc.R, loc.t_center, loc.s_center, loc.scale),
               matrix_world)
  /\ UNCHANGED <<target_verts, template_verts, loc, mvars, svars>>

AlignNext ==
  \/ Center
  \/ Scale
  \/ Rotation
  \/ Transform

AlignSpec == AlignInit /\ [][AlignNext]_vars


\* ========================================================= rigger.py main
\* The server's variables that main leaves alone: all but outputs/rigged_temp.glb.
svarsButRigged == <<tasks, pc, hashOf, pend, eng, elapsed, runs, script, template,
                    input, prepared, final, cache, orphans, captured>>

Range(seq) == {seq[i] : i \in 1..Len(seq)}

\* The process's memory when it has not started or has exited.
NoMemory ==
  /\ target_verts' = << >>
  /\ template_verts' = << >>
  /\ loc' = NoLocals
  /\ matrix_world' = Identity4

\* A step of main whose exception reaches main's except clause.
FatalStep(name, next) ==
  /\ apc = name
  /\ \E ok \in BOOLEAN :
       IF ok THEN /\ performed' = Append(performed, name)
                  /\ apc' = next
                  /\ UNCHANGED errors
       ELSE /\ errors' = errors \cup {name}
            /\ apc' = "except"
            /\ UNCHANGED performed
  /\ UNCHANGED <<target_verts, template_verts, loc, matrix_world, returncode>>

\* check_file_exists(INPUT_PATH), check_file_exists(TEMPLATE_PATH)
CheckFiles == FatalStep("check_files", "reset_scene") /\ UNCHANGED svars

ResetScene == FatalStep("reset_scene", "import_target") /\ UNCHANGED svars

\* target_obj = import_mesh(INPUT_PATH)
ImportTarget == FatalStep("import_target", "import_template") /\ UNCHANGED svars

\* bpy.ops.import_scene.gltf / fbx of TEMPLATE_PATH
ImportTemplate == FatalStep("import_template", "find_template") /\ UNCHANGED svars

\* "Template does not contain an armature." / "... a mesh."
FindTemplate == FatalStep("find_template", "icp_align") /\ UNCHANGED svars

\* icp_align, "Extract vertices": the world-space vertices of both meshes.
Extract ==
  /\ apc = "icp_align"
  /\ \E ok \in BOOLEAN :
       IF ok THEN /\ \E m \in MeshPairs :
                       template_verts' = m[1] /\ target_verts' = m[2]
                  /\ apc' = "center"
                  /\ UNCHANGED errors
       ELSE /\ errors' = errors \cup {"get_vertices"}
            /\ apc' = "except"
            /\ UNCHANGED <<target_verts, template_verts>>
  /\ UNCHANGED <<loc, matrix_world, returncode, performed, svars>>

\* icp_align returned; template_armature.matrix_world =
\* template_mesh.matrix_world.  The locals of icp_align are gone.
SyncArmature ==
  /\ apc = "done"
  /\ target_verts' = << >>
  /\ template_verts' = << >>
  /\ loc' = NoLocals
  /\ \E ok \in BOOLEAN :
       IF ok THEN /\ performed' = performed \o <<"icp_align", "sync_armature">>
                  /\ apc' = "transfer_weights"
                  /\ UNCHANGED errors
       ELSE /\ performed' = Append(performed, "icp_align")
            /\ errors' = errors \cup {"sync_armature"}
            /\ apc' = "except"
  /\ UNCHANGED <<matrix_world, returncode, svars>>

TransferWeights == FatalStep("transfer_weights", "smooth_weights") /\ UNCHANGED svars

SmoothWeights == FatalStep("smooth_weights", "add_armature_modifier") /\ UNCHANGED svars

AddArmatureModifier ==
  FatalStep("add_armature_modifier", "transfer_textures") /\ UNCHANGED svars

\* transfer_textures: a layer that fails is logged and skipped.
TransferTextures ==
  /\ apc = "transfer_textures"
  /\ apc' = "parent"
  /\ performed' = Append(performed, "transfer_textures")
  /\ \E uv_ok, vcol_ok \in BOOLEAN :
       errors' = errors \cup (IF uv_ok THEN {} ELSE {"uv_layer"})
                        \cup (IF vcol_ok THEN {} ELSE {"vertex_color"})
  /\ UNCHANGED <<target_verts, template_verts, loc, matrix_world, returncode,
                 svars>>

\* parent_target_to_armature
Parent == FatalStep("parent", "remove_template") /\ UNCHANGED svars

RemoveTemplateFatal ==
  /\ apc = "remove_template"
  /\ \E ok \in BOOLEAN :
       IF ok THEN /\ performed' = Append(performed, "remove_template")
                  /\ apc' = "makedirs"
                  /\ UNCHANGED errors
       ELSE /\ errors' = errors \cup {"remove_template"}
            /\ apc' = "except"
            /\ UNCHANGED performed
  /\ UNCHANGED <<target_verts, template_verts, loc, matrix_world, returncode,
                 svars>>

\* bpy.data.objects.remove(template_mesh): "Continue - not fatal"
RemoveTemplate ==
  /\ apc = "remove_template"
  /\ apc' = "makedirs"
  /\ \E ok \in BOOLEAN :
       IF ok THEN /\ performed' = Append(performed, "remove_template")
                  /\ UNCHANGED errors
       ELSE /\ errors' = errors \cup {"remove_template"}
            /\ UNCHANGED performed
  /\ UNCHANGED <<target_verts, template_verts, loc, matrix_world, returncode,
                 svars>>

\* os.makedirs(os.path.dirname(OUTPUT_PATH), exist_ok=True)
MakeDirs == FatalStep("makedirs", "export_glb") /\ UNCHANGED svars

\* export_glb(OUTPUT_PATH): the exporter raises, or writes no file and the
\* path is still missing, or the file is written.  OUTPUT_PATH is
\* outputs/rigged_temp.glb of the job that started this process.
ExportGlb ==
  /\ apc = "export_glb"
  /\ \E j \in TaskIds, written \in BOOLEAN :
       /\ pc[j] = "rig_wait"
       /\ IF written
          THEN /\ rigged' = File(j, j, {}, FALSE)
               /\ performed' = Append(performed, "export_glb")
               /\ apc' = "exit0"
               /\ UNCHANGED errors
          ELSE /\ errors' = errors \cup {"export_glb"}
               /\ apc' = "except"
               /\ UNCHANGED <<rigged, performed>>
  /\ UNCHANGED <<target_verts, template_verts, loc, matrix_world, returncode,
                 svarsButRigged>>

\* sys.exit(0) at the end of the try block: SystemExit is no Exception
ExitZero ==
  /\ apc = "exit0"
  /\ apc' = "exit"
  /\ returncode' = 0
  /\ NoMemory
  /\ UNCHANGED <<performed, errors, svars>>

ExceptExitsZero ==
  /\ apc \in {"except", "raised"}
  /\ apc' = "exit"
  /\ returncode' = 0
  /\ NoMemory
  /\ UNCHANGED <<performed, errors, svars>>

\* except Exception: traceback.print_exc(); sys.exit(1)
Except ==
  /\ apc \in {"except", "raised"}
  /\ apc' = "exit"
  /\ returncode' = 1
  /\ NoMemory
  /\ UNCHANGED <<performed, errors, svars>>

\* subprocess.run of the rigging stage returns with the script's status; the
\* traceback of a failed run is on its stderr.
MainReturned ==
  /\ apc = "exit"
  /\ \E j \in TaskIds :
       IF returncode = 0 THEN RigExit(j, "ok", "")
       ELSE RigExit(j, "fail", "Traceback")

\* run_pipeline and run_pipeline_task after the rigging stage.
AfterRig(j) ==
  \/ RigCheckOutput(j)
  \/ OptimizeBegin(j)
  \/ \E io_ok \in BOOLEAN : OptimizeEnd(j, io_ok)
  \/ CleanupCheck(j)
  \/ CleanupRemove(j)
  \/ PublishBegin(j)
  \/ \E io_ok \in BOOLEAN : PublishEnd(j, io_ok)
  \/ RemoveInput(j)

\* One job whose Prepare stage succeeded and whose run_pipeline has just
\* started blender on rigger.py.
RigStarted ==
  \E j \in TaskIds, d \in Data :
    /\ \A u \in TaskIds : j <= u
    /\ tasks = [t \in {j} |-> Processing]
    /\ pc = [t \in TaskIds |-> IF t = j THEN "rig_wait" ELSE "none"]
    /\ hashOf = [t \in TaskIds |-> IF t = j THEN get_file_hash(d) ELSE get_file_hash(1)]
    /\ pend = [t \in TaskIds |-> OK]
    /\ eng = [t \in TaskIds |-> IF t = j THEN "run" ELSE "none"]
    /\ elapsed = [t \in TaskIds |-> 0]
    /\ runs = [t \in TaskIds |-> IF t = j THEN <<1, 1>> ELSE <<0, 0>>]
    /\ script = FALSE
    /\ template = TRUE
    /\ input = [t \in TaskIds |-> t = j]
    /\ prepared = [t \in TaskIds |-> t = j]
    /\ rigged = NoFile
    /\ final = NoFile
    /\ cache = [h \in Hashes |-> NoFile]
    /\ orphans = 0
    /\ captured = [t \in TaskIds |-> ""]

RigInit ==
  /\ RigStarted
  /\ apc = "check_files"
  /\ target_verts = << >>
  /\ template_verts = << >>
  /\ loc = NoLocals
  /\ matrix_world = Identity4
  /\ returncode = 0
  /\ performed = << >>
  /\ errors = {}

RigNext ==
  \/ CheckFiles
  \/ ResetScene
  \/ ImportTarget
  \/ ImportTemplate
  \/ FindTemplate
  \/ Extract
  \/ Center
  \/ Scale
  \/ Rotation
  \/ Transform
  \/ SyncArmature
  \/ TransferWeights
  \/ SmoothWeights
  \/ AddArmatureModifier
  \/ TransferTextures
  \/ Parent
  \/ RemoveTemplate
  \/ MakeDirs
  \/ ExportGlb
  \/ ExitZero
  \/ Except
  \/ MainReturned
  \/ \E j \in TaskIds : AfterRig(j)

RigSpec == RigInit /\ [][RigNext]_vars


\* ================================================================= claims
TerminalStatus == {"SUCCESS", "FAILURE"}

\* C1: once a record is SUCCESS or FAILURE, no step of any handler or worker
\* changes its status, output or error.
TerminalRecordsFrozen ==
  [][\A t \in Issued :
       Terminal(t) => (t \in DOMAIN tasks' /\ tasks'[t] = tasks[t])]_vars

\* Two jobs have finished: steps were taken after the first one became terminal.
TwoJobsDone ==
  \E t, u \in Issued : t # u /\ pc[t] = "done" /\ pc[u] = "done"

\* C2 as stated: every record is created non-terminal, and a terminal status
\* is entered only from the running status.
StrictQueuedRunningTerminal ==
  [][\A t \in DOMAIN tasks' :
       /\ t \notin DOMAIN tasks => tasks'[t].status \notin TerminalStatus
       /\ (t \in DOMAIN tasks /\ tasks'[t].status \in TerminalStatus
             /\ tasks'[t] # tasks[t]) => tasks[t].status = "PROCESSING"]_vars

\* C2 as amended: a record is created PROCESSING with a worker when no file is
\* at <hash>.glb, and created SUCCESS without a worker when one is; a record
\* changes only from PROCESSING to SUCCESS or FAILURE, by its own worker.
StatusOrder ==
  [][\A t \in DOMAIN tasks' :
       /\ t \notin DOMAIN tasks =>
            IF Exists(cache[hashOf'[t]])
            THEN tasks'[t] = Success(cached_path(hashOf'[t])) /\ pc'[t] = "none"
            ELSE tasks'[t] = Processing /\ pc'[t] = "prep_script"
       /\ (t \in DOMAIN tasks /\ tasks'[t] # tasks[t]) =>
            /\ tasks[t].status = "PROCESSING"
            /\ tasks'[t].status \in TerminalStatus
            /\ pc[t] # "none" /\ pc'[t] = "fin"]_vars

\* A worker's job succeeded and another submission was answered from the cache.
HitAfterWorkerSuccess ==
  \E t, u \in Issued :
    /\ pc[t] = "done" /\ tasks[t].status = "SUCCESS"
    /\ pc[u] = "none" /\ tasks[u].status = "SUCCESS"

\* C3 as stated: of two submissions of the same bytes the second never has a
\* pipeline run, and both resolve to the same locator.
AnyInterleavingIdempotent ==
  \A t, u \in Issued :
    (t < u /\ hashOf[t] = hashOf[u]) =>
      /\ pc[u] = "none"
      /\ (Terminal(t) /\ Terminal(u)) =>
           (tasks[t].status = "SUCCESS" /\ tasks[u] = tasks[t])

\* C3 as amended: all SUCCESS records of the same bytes name the same locator,
\* and a submission arriving while a file is at <hash>.glb becomes SUCCESS on
\* that locator with no worker and no engine run.
CacheIdempotence ==
  /\ [](\A t, u \in Issued :
          (hashOf[t] = hashOf[u] /\ tasks[t].status = "SUCCESS"
             /\ tasks[u].status = "SUCCESS") => tasks[t].output = tasks[u].output)
  /\ [][\A t \in DOMAIN tasks' \ DOMAIN tasks :
          Exists(cache[hashOf'[t]]) =>
            /\ tasks'[t] = Success(cached_path(hashOf'[t]))
            /\ pc'[t] = "none" /\ runs'[t] = <<0, 0>> /\ ~input'[t]]_vars

\* The same bytes submitted twice, the second answered from the first's file.
SecondSubmissionHit ==
  \E t, u \in Issued :
    /\ t < u /\ hashOf[t] = hashOf[u]
    /\ pc[t] \in {"fin", "done"} /\ pc[u] = "none"
    /\ tasks[u] = tasks[t] /\ runs[u] = <<0, 0>>

\* C4: a file at <hash>.glb that a SUCCESS record points to (so that a cache
\* lookup found it, or a download can serve it) is completely written.
CacheEntryNeverPartial ==
  \A t \in Issued :
    tasks[t].status = "SUCCESS" => ~Partial(cache[hashOf[t]])

\* C5: a job that ended FAILURE left no file of its own at its cache path.
FailedRunNotPublished ==
  \A j \in Issued :
    tasks[j].status = "FAILURE" =>
      ~(Exists(cache[hashOf[j]]) /\ cache[hashOf[j]].by = j)

\* C6: every job with a worker that is PROCESSING eventually is SUCCESS or
\* FAILURE, whatever its engine invocations do.
EventuallyTerminal ==
  \A j \in TaskIds :
    (j \in Issued /\ pc[j] # "none" /\ tasks[j].status = "PROCESSING")
      ~> Terminal(j)

\* One job ended after its engine was killed, another after its engine exited
\* zero without output.
HungAndSilentEnginesEnded ==
  \E j, k \in Issued :
    /\ pc[j] = "done" /\ eng[j] = "killed"
    /\ pc[k] = "done" /\ eng[k] = "noout"

\* C7: an engine invocation runs no longer than the ceiling of its stage (300
\* for Prepare, 600 for rigging); it is killed exactly at the ceiling, after
\* which the job starts no further engine, is never SUCCESS, and becomes
\* FAILURE.
TimeoutFailsJob ==
  /\ [](\A j \in Issued :
          /\ pc[j] = "prep_wait" => elapsed[j] <= PREPARE_TIMEOUT
          /\ pc[j] = "rig_wait" => elapsed[j] <= RIG_TIMEOUT
          /\ eng[j] = "killed" =>
               /\ pc[j] \in {"prep_rm", "fin", "done"}
               /\ pc[j] = "prep_rm" => pend[j] # OK
               /\ pc[j] # "prep_rm" => tasks[j].status = "FAILURE")
  /\ [][\A j \in Issued :
          /\ (eng[j] # "killed" /\ eng'[j] = "killed") =>
               elapsed[j] = (IF pc[j] = "prep_wait" THEN PREPARE_TIMEOUT
                             ELSE RIG_TIMEOUT)
          /\ eng[j] = "killed" => (eng'[j] = "killed" /\ runs'[j] = runs[j])]_vars
  /\ \A j \in TaskIds :
       (j \in Issued /\ eng[j] = "killed")
         ~> (j \in Issued /\ tasks[j].status = "FAILURE")

\* A Prepare engine was killed at 300 and the job is FAILURE with the timeout
\* as its cause, no rigging engine having been started.
PrepareTimedOut ==
  \E j \in Issued :
    /\ eng[j] = "killed" /\ runs[j] = <<1, 0>>
    /\ tasks[j] = Failure(ErrTimeout("300"))

\* C8: a job whose rigging engine exited zero without writing its output file
\* is never SUCCESS, and is FAILURE once its worker has finished.
RigNeedsOwnOutput ==
  \A j \in Issued :
    (runs[j][2] > 0 /\ eng[j] = "noout") =>
      /\ tasks[j].status # "SUCCESS"
      /\ pc[j] = "done" => tasks[j].status = "FAILURE"

\* C9: a FAILURE record has a non-empty cause, and none of the files the run
\* created (prepared mesh, rigged_temp.glb, final_rigged.glb) is left.
FailureLeavesNoIntermediates ==
  \A j \in Issued :
    tasks[j].status = "FAILURE" =>
      /\ tasks[j].error # <<"", "">>
      /\ ~prepared[j]
      /\ ~(Exists(rigged) /\ rigged.by = j)
      /\ ~(Exists(final) /\ final.by = j)

\* C10: when run_pipeline returns to run_pipeline_task, final_rigged.glb
\* exists and neither the job's prepared mesh nor a rigged_temp.glb written by
\* the job's engine does.
SuccessRemovesIntermediates ==
  \A j \in Issued :
    pc[j] = "pub_begin" =>
      /\ Exists(final)
      /\ ~prepared[j]
      /\ ~(Exists(rigged) /\ rigged.by = j)

\* run_pipeline has returned for a job while another job's rigged_temp.glb
\* is in the shared output directory.
ReturnedBesideOtherRun ==
  \E j \in Issued :
    /\ pc[j] = "pub_begin" /\ eng[j] = "ok"
    /\ Exists(rigged) /\ rigged.by # j


\* The requests the size, type or shape checks of the claim reject.
Rejectable(r) ==
  ~r[1] \/ r[2] = "" \/ r[3] \notin {"glb", "gltf", "obj", "fbx"}
    \/ r[4] > MAX_FILE_SIZE

\* C11: a submission failing validation is answered 400, and the step that
\* handles it leaves the task table, the worker threads and every file of the
\* upload and output folders as they were.
RejectedSubmissionTouchesNothing ==
  /\ [](\A r \in Requests, d \in Data :
          Rejectable(r) => UploadResponse(r[1], r[2], r[3], r[4], d).code = 400)
  /\ [][\A r \in Requests, d \in Data :
          (Rejectable(r) /\ upload(r[1], r[2], r[3], r[4], d)) =>
            /\ tasks' = tasks /\ pc' = pc /\ runs' = runs
            /\ input' = input /\ orphans' = orphans
            /\ prepared' = prepared /\ rigged' = rigged /\ final' = final
            /\ cache' = cache]_vars

\* Requests of each rejected kind arrive while a job is being rigged.
RejectedWhileRigging ==
  /\ \E t \in Issued : pc[t] = "rig_wait"
  /\ \A e \in {"No file part", "Empty filename", "Unsupported file type",
               "File too large"} :
       \E r \in Requests :
         UploadResponse(r[1], r[2], r[3], r[4], 1) = [code |-> 400, error |-> e]

\* C12: status answers 404 for every id without a record, and never for an
\* id that has a record or a worker.
StatusNotFoundOnlyForUnknown ==
  \A t \in QueryIds :
    /\ t \notin Issued => StatusResponse(t) = [code |-> 404, error |-> "Invalid task ID"]
    /\ t \in Issued => (StatusResponse(t).code = 200
                         /\ StatusResponse(t).status = tasks[t].status)
    /\ (t \in TaskIds /\ (pc[t] # "none" \/ input[t])) => StatusResponse(t).code = 200

\* One id is being processed, another was never issued.
KnownAndUnknownIds ==
  \E t, u \in QueryIds :
    /\ t \in Issued /\ pc[t] = "opt_copy" /\ StatusResponse(t).status = "PROCESSING"
    /\ u \notin Issued /\ StatusResponse(u).code = 404

\* C13: every record is PROCESSING alone, SUCCESS with the output path of an
\* existing file, or FAILURE with an error text.
RecordShapes ==
  \A t \in Issued :
    \/ tasks[t] = Processing
    \/ /\ DOMAIN tasks[t] = {"status", "output"}
       /\ tasks[t].status = "SUCCESS"
       /\ tasks[t].output = cached_path(hashOf[t])
       /\ Exists(FileAt(tasks[t].output))
       /\ StatusResponse(t).status = "SUCCESS"
    \/ /\ DOMAIN tasks[t] = {"status", "error"}
       /\ tasks[t].status = "FAILURE"
       /\ tasks[t].error # <<"", "">>
       /\ StatusResponse(t).error = tasks[t].error

\* Records of all three shapes at once need three ids; two of them here,
\* one written by a worker that succeeded, one by a worker that failed.
SuccessAndFailureRecords ==
  \E t, u \in Issued :
    /\ pc[t] = "done" /\ tasks[t].status = "SUCCESS"
    /\ pc[u] = "done" /\ tasks[u].status = "FAILURE"

\* C14: download serves the file only for a SUCCESS record whose file exists,
\* answers 500 for a SUCCESS record whose file is missing, and 404 for an
\* unknown, PROCESSING or FAILURE id.
DownloadAnswers ==
  \A t \in QueryIds :
    /\ \A fileExists \in BOOLEAN :
         LET r == DownloadOf(t, fileExists) IN
         IF t \in Issued /\ tasks[t].status = "SUCCESS"
         THEN IF fileExists THEN r = [code |-> 200, file |-> tasks[t].output]
              ELSE r.code = 500
         ELSE r.code = 404
    /\ DownloadResponse(t).code = 200 =>
         (t \in Issued /\ tasks[t].status = "SUCCESS"
            /\ Exists(cache[hashOf[t]]))

\* Ids in each state a download can meet: SUCCESS, FAILURE and unknown.
DownloadOfEachKind ==
  \E t, u \in Issued :
    /\ tasks[t].status = "SUCCESS" /\ DownloadResponse(t).code = 200
    /\ tasks[u].status = "FAILURE" /\ DownloadResponse(u).code = 404
    /\ DownloadResponse(0).code = 404

\* C15: each stage's engine is started at most once per job, rigging only
\* after Prepare; a job whose engine failed or was killed, or that is FAILURE,
\* is past every engine invocation, and ends FAILURE.
NothingRetried ==
  \A j \in Issued :
    /\ runs[j][1] <= 1 /\ runs[j][2] <= runs[j][1]
    /\ (eng[j] \in {"fail", "killed"} \/ pend[j] # OK) =>
         /\ pc[j] \in {"prep_rm", "fin", "done"}
         /\ pc[j] # "prep_rm" => tasks[j].status = "FAILURE"
    /\ tasks[j].status = "FAILURE" =>
         (pc[j] \in {"fin", "done"} /\ eng[j] \notin {"run", "noscript"})

\* A job failed in Prepare and never started the rigging engine; another
\* failed in rigging after one invocation of each.
FailedInEachStage ==
  \E j, k \in Issued :
    /\ pc[j] = "done" /\ tasks[j].status = "FAILURE" /\ runs[j] = <<1, 0>>
    /\ pc[k] = "done" /\ tasks[k].status = "FAILURE" /\ runs[k] = <<1, 1>>
    /\ eng[k] = "fail"

\* C16: the error text of a job whose engine exited non-zero carries the
\* stderr captured from that invocation.
FailureCarriesStderr ==
  \A j \in Issued :
    (eng[j] = "fail" /\ tasks[j].status = "FAILURE") =>
      (captured[j] = "" \/ tasks[j].error[2] = captured[j])

\* C17: a record that appears is written by upload; a record that changes is
\* replaced whole, by the step of its own worker that ends the job, and no
\* other worker moves in that step.
SingleWriterPerRecord ==
  [][\A t \in DOMAIN tasks' :
       IF t \notin DOMAIN tasks
       THEN /\ tasks'[t] \in {Processing, Success(cached_path(hashOf'[t]))}
            /\ \A u \in TaskIds \ {t} : pc'[u] = pc[u]
            /\ \A u \in DOMAIN tasks : tasks'[u] = tasks[u]
       ELSE tasks'[t] # tasks[t] =>
              /\ pc[t] \notin {"none", "fin", "done"} /\ pc'[t] = "fin"
              /\ \A u \in TaskIds \ {t} : pc'[u] = pc[u]
              /\ \A u \in DOMAIN tasks \ {t} : tasks'[u] = tasks[u]
              /\ \/ tasks'[t] = Success(cached_path(hashOf[t]))
                 \/ /\ DOMAIN tasks'[t] = {"status", "error"}
                    /\ tasks'[t].status = "FAILURE"]_vars

\* The second job's worker wrote its record while the first job's worker was
\* still running.
WorkerWroteBesideRunningWorker ==
  \E t, u \in Issued :
    /\ t < u /\ Terminal(u) /\ pc[u] \in {"fin", "done"}
    /\ tasks[t] = Processing /\ pc[t] \notin {"none", "fin", "done"}


\* The similarity transforms T, as 4x4 matrices, with T(template) = target.
Recovered ==
  { T \in { Similarity(k, Q, d) :
              k \in 1..MaxScale, Q \in Rotations, d \in Offsets } :
      target_verts = Moved(T, template_verts) }

\* C18: the matrix alignment applies to the template maps every point p to
\* scale * R * (p - s_center) + t_center, the template's centroid to the
\* target's centroid.
TransformAboutCentroids ==
  apc = "done" =>
    /\ \A i \in 1..Len(template_verts) :
         Apply(matrix_world, template_verts[i]) =
           VAdd(VScale(loc.scale,
                       MatVec(loc.R, VSub(template_verts[i], loc.s_center))),
                loc.t_center)
    /\ Apply(matrix_world, loc.s_center) = loc.t_center

\* C19: when the target is T(template) for a similarity transform T with a
\* proper rotation, the matrix alignment applies is T: the aligned template
\* is the target.
AlignmentRecoversTransform ==
  (apc = "done" /\ Recovered # {}) =>
    /\ matrix_world \in Recovered
    /\ Moved(matrix_world, template_verts) = target_verts

\* C20: once the rotation is computed it is orthogonal with determinant +1,
\* and so is the rotation part of the matrix applied to the template.
RotationIsProper ==
  /\ apc \in {"transform", "done"} =>
       /\ Det3(loc.R) = 1
       /\ MatMul(loc.R, Transpose(loc.R)) = Identity3
  /\ apc = "done" =>
       \A i, j \in 1..3 : matrix_world[i][j] = loc.scale * loc.R[i][j]

\* The template was aligned to a mirrored, scaled and displaced copy of
\* itself, and the reflection correction was applied.
MirroredTargetAligned ==
  /\ apc = "done" /\ loc.reflected
  /\ loc.scale = MaxScale
  /\ loc.t_center # loc.s_center
  /\ Recovered = {}


\* The template's vertices are one and the same point.
ZeroSpread == \A i, j \in 1..Len(template_verts) : template_verts[i] = template_verts[j]

\* C21: alignment of non-empty meshes does not fail; with a template of zero
\* spread the scale is 1, otherwise it is the target's spread divided by the
\* template's (root mean square distances to the centroids).
ScaleFallsBackToOne ==
  /\ apc = "raised" => (Len(target_verts) = 0 \/ Len(template_verts) = 0)
  /\ apc \in {"rotation", "transform", "done"} =>
       IF ZeroSpread THEN loc.scale = 1
       ELSE /\ loc.scale >= 0
            /\ loc.scale * loc.scale * Len(target_verts)
                 * SumSquaresTo(template_verts, Mean(template_verts), Len(template_verts))
               = Len(template_verts)
                 * SumSquaresTo(target_verts, Mean(target_verts), Len(target_verts))

\* A template collapsed to one point was aligned to a target that has spread.
CollapsedTemplateAligned ==
  /\ apc = "done"
  /\ Len(template_verts) > 0 /\ ZeroSpread
  /\ \E i, j \in 1..Len(target_verts) : target_verts[i] # target_verts[j]
  /\ loc.scale = 1


\* C22: when either mesh has no vertices, icp_align raises with the
\* template's matrix untouched; main then performs no weight transfer and no
\* export and exits 1, no file is written, and the job ends FAILURE.
EmptyMeshFailsJob ==
  /\ (apc \in {"scale", "rotation", "transform", "done"}) =>
       (Len(target_verts) > 0 /\ Len(template_verts) > 0)
  /\ apc = "raised" =>
       ((Len(target_verts) = 0 \/ Len(template_verts) = 0)
          /\ "no_vertices" \in errors)
  /\ "no_vertices" \in errors =>
       /\ matrix_world = Identity4
       /\ Range(performed) \cap {"icp_align", "transfer_weights", "export_glb"} = {}
       /\ apc \in {"raised", "exit"}
       /\ apc = "exit" => returncode = 1
       /\ ~Exists(rigged)
       /\ \A j \in Issued :
            /\ pc[j] \in {"rig_wait", "fin", "done"}
            /\ pc[j] # "rig_wait" =>
                 (tasks[j] = Failure(ErrRigging("Traceback")) /\ eng[j] = "fail")

\* The job whose rigging script met a mesh without vertices has ended.
EmptyMeshJobEnded ==
  /\ "no_vertices" \in errors
  /\ apc = "exit" /\ returncode = 1
  /\ \E j \in Issued : pc[j] = "done" /\ tasks[j].status = "FAILURE"

\* The steps of main whose failure is fatal, by the name logged for them.
FatalSteps ==
  {"check_files", "reset_scene", "import_target", "import_template",
   "find_template", "icp_align", "sync_armature", "transfer_weights",
   "smooth_weights", "add_armature_modifier", "parent", "makedirs",
   "export_glb"}

\* What main logs when a fatal step raises.
FatalErrors == (FatalSteps \ {"icp_align"}) \cup {"get_vertices", "no_vertices"}

\* C27: the script exits 0 exactly when every fatal step completed, and then
\* the exported file is at the output path when the pipeline looks for it;
\* it exits 1 exactly when a fatal step raised; a UV layer, a vertex-colour
\* layer or the removal of the template mesh failing changes neither.
ExitStatusFollowsFatalSteps ==
  /\ apc = "exit" =>
       /\ returncode \in {0, 1}
       /\ returncode = 0 <=> FatalSteps \subseteq Range(performed)
       /\ returncode = 1 <=> errors \cap FatalErrors # {}
       /\ returncode = 0 => errors \subseteq {"uv_layer", "vertex_color", "remove_template"}
  /\ apc = "exit0" => (FatalSteps \subseteq Range(performed) /\ Exists(rigged))
  /\ \A j \in Issued :
       /\ (pc[j] = "rig_wait" /\ apc = "exit" /\ returncode = 0) => Exists(rigged)
       /\ eng[j] = "ok" => (apc = "exit" /\ returncode = 0)
       /\ eng[j] = "fail" => (apc = "exit" /\ returncode = 1)

\* The script exited 0 although two layers and the removal of the template
\* mesh failed, and the pipeline found its output.
ExitZeroDespiteSkippedLayers ==
  /\ apc = "exit" /\ returncode = 0
  /\ errors = {"uv_layer", "vertex_color", "remove_template"}
  /\ \E j \in Issued : pc[j] = "opt_begin" /\ eng[j] = "ok"


\* C23: the rigging engine of a job is started only after its Prepare engine
\* exited zero and left the prepared mesh, and Optimize runs only on a job
\* whose own rigging engine exited zero and wrote its output.
StagesInOrder ==
  \A j \in Issued :
    /\ runs[j][2] <= runs[j][1]
    /\ pc[j] = "rig_spawn" => (eng[j] = "ok" /\ prepared[j] /\ runs[j] = <<1, 0>>)
    /\ pc[j] \in {"opt_begin", "opt_copy"} => (eng[j] = "ok" /\ runs[j] = <<1, 1>>)

\* C24: the file at <hash>.glb, and so the file a SUCCESS record points to,
\* holds the output of the rigging run on an input with that hash.
PublishedIsOwnRigging ==
  /\ \A h \in Hashes : Exists(cache[h]) => hashOf[cache[h].content] = h
  /\ \A t \in Issued :
       tasks[t].status = "SUCCESS" => hashOf[FileAt(tasks[t].output).content] = hashOf[t]

\* C25: while the Prepare engine of a job runs, the script file written for
\* it is there, and no engine is started without it.
ScriptSurvivesEngine ==
  \A j \in TaskIds :
    /\ eng[j] # "noscript"
    /\ (pc[j] = "prep_wait" /\ eng[j] = "run") => script

\* C26: the uploaded file of a job exists while its pipeline runs and is gone
\* when its worker has finished, and no file in the upload folder belongs to
\* a submission that was answered with an error.
NoInputLeaked ==
  /\ orphans = 0
  /\ \A j \in TaskIds :
       /\ pc[j] \notin {"none", "done"} => input[j]
       /\ pc[j] \in {"none", "done"} => ~input[j]

====
